---------------------------- MODULE Spec2Model ----------------------------
(***************************************************************************)
(* Model of the usage report tool: src/src/usage_report.py (UsageReporter) *)
(* and src/src/glm_token_parser.py (GLMTokenParser).                       *)
(*                                                                         *)
(* Python strings that the code slices, compares or sorts (timestamps,     *)
(* dates, log file date tokens) are sequences of one-character strings.    *)
(* Python dicts are functions; a key that is absent from a dict is absent  *)
(* from the function's DOMAIN, and dict.get(k, default) is Get.            *)
(* Prices are kept in tenths of a currency unit per million tokens and     *)
(* costs as the exact numerator tokens * price over the fixed denominator  *)
(* 10 * PerMillion, so that cost arithmetic is exact; the floats that      *)
(* Python computes for the same costs are modelled in the section on       *)
(* Python floats (_calculate_cost_float, ModelDateCosts).                  *)
(***************************************************************************)
EXTENDS Integers, Sequences, FiniteSets, TLC

VARIABLES
    usage_data,      \* the remote payload, as fetch_usage_data returns it
    log_files,       \* the log directory: date token |-> lines of token_usage_<token>.log
    GLM_ENABLED,     \* conf.GLM_ENABLED
    pricing_file,    \* the pricing configuration file
    pricing_config,  \* UsageReporter.pricing_config
    daily_report,    \* the value returned by generate_daily_report
    parse_result,    \* the value returned by parse_log_file
    price_result,    \* the value returned by _get_pricing_for_model, with its argument
    cost_result,     \* the value returned by _calculate_cost, with its arguments
    exit_status,     \* the status passed to sys.exit, -1 while the process runs
    pc,              \* position of the caller
    cost_sums,       \* the float cost sums of one model's details, with their arguments
    available_dates, \* the value returned by get_available_dates
    CLI_PROXY_ENABLED, \* conf.CLI_PROXY_ENABLED
    endpoint,        \* the remote usage endpoint: how it answers a request
    run_args,        \* the arguments of UsageReporter.run
    run_steps        \* the steps run has taken, in order

run_vars == <<CLI_PROXY_ENABLED, endpoint, run_args, run_steps>>

vars == <<usage_data, log_files, GLM_ENABLED, pricing_file, pricing_config,
          daily_report, parse_result, price_result, cost_result, exit_status, pc,
          cost_sums, available_dates, run_vars>>

----------------------------------------------------------------------------
(* Python dict and string primitives                                       *)

\* dict.get(k, default)
Get(d, k, default) == IF k \in DOMAIN d THEN d[k] ELSE default

\* ord(c) for the characters that occur in the modelled strings
CodePoint(c) ==
    CASE c = " " -> 32 [] c = "-" -> 45
      [] c = "0" -> 48 [] c = "1" -> 49 [] c = "2" -> 50 [] c = "3" -> 51
      [] c = "4" -> 52 [] c = "5" -> 53 [] c = "6" -> 54 [] c = "7" -> 55
      [] c = "8" -> 56 [] c = "9" -> 57 [] c = ":" -> 58
      [] c = "T" -> 84 [] c = "_" -> 95 [] c = "b" -> 98 [] c = "x" -> 120

IsDigit(c) == CodePoint(c) >= 48 /\ CodePoint(c) <= 57

\* str.startswith(prefix)
StartsWith(s, prefix) ==
    /\ Len(prefix) <= Len(s)
    /\ \A i \in 1..Len(prefix) : s[i] = prefix[i]

\* s.split("T")[0]: the part of s before its first "T", all of s when it has none
SplitT0(s) ==
    LET hits == {i \in 1..Len(s) : s[i] = "T"}
    IN  IF hits = {} THEN s
        ELSE SubSeq(s, 1, (CHOOSE i \in hits : \A j \in hits : i <= j) - 1)

\* a < b in Python's string order (lexicographic by code point)
StrLess(a, b) ==
    \E k \in 0..Len(a) :
        /\ k <= Len(b)
        /\ \A i \in 1..k : a[i] = b[i]
        /\ \/ (k = Len(a) /\ k < Len(b))
           \/ (k < Len(a) /\ k < Len(b) /\ CodePoint(a[k+1]) < CodePoint(b[k+1]))

\* sorted(S) for a set of strings
RECURSIVE sorted(_)
sorted(S) ==
    IF S = {} THEN <<>>
    ELSE LET m == CHOOSE x \in S : \A y \in S \ {x} : StrLess(x, y)
         IN  <<m>> \o sorted(S \ {m})

----------------------------------------------------------------------------
(* Inputs: the strings, records and lines the environment can supply       *)

D1 == <<"2","0","2","4","-","0","1","-","0","1">>          \* "2024-01-01"
D2 == <<"2","0","2","4","-","0","1","-","0","2">>          \* "2024-01-02"
TS_D1 == D1 \o <<"T","1","0",":","0","0">>                  \* "2024-01-01T10:00"
TS_D2 == D2 \o <<"T","0","9",":","0","0">>                  \* "2024-01-02T09:00"
TS_D1_SPACE == D1 \o <<" ","1","0",":","0","0">>            \* "2024-01-01 10:00"
EMPTY == <<>>                                               \* ""

EmptyDict == <<>>

\* JSON values as json.loads returns them, tagged by their Python type
Num(n) == [type |-> "number", n |-> n]
Str == [type |-> "string"]
Null == [type |-> "null"]
Array == [type |-> "array"]
Object(members) == [type |-> "object", members |-> members]

StandardPricing ==
    [models |-> [glm |-> [input_token_per_million |-> 5, output_token_per_million |-> 20]],
     pricing |-> [default |-> [input_token_per_million |-> 20,
                               output_token_per_million |-> 60]]]

\* A pricing configuration file that holds a JSON object
JsonFile(content) == [state |-> "json", content |-> content]

\* Python's None, and the value of a variable that holds no result yet
None == [none |-> TRUE]

\* A line of a log file: what strip() and json.loads make of its text
BlankLine == [kind |-> "blank"]
TextLine == [kind |-> "text"]
JsonLine(value) == [kind |-> "json", value |-> value]

----------------------------------------------------------------------------
(* GLMTokenParser                                                          *)

EmptyStats(date) ==
    [date |-> date, total_requests |-> 0, total_input_tokens |-> 0,
     total_output_tokens |-> 0, total_tokens |-> 0, details |-> <<>>]

\* a + b succeeds in Python for two numbers and for two strings
CanAdd(a, b) ==
    \/ a.type = "number" /\ b.type = "number"
    \/ a.type = "string" /\ b.type = "string"

PyAdd(a, b) == IF a.type = "number" THEN Num(a.n + b.n) ELSE Str

\* The body of the loop of parse_log_file for one line: the statistics after
\* it and the exception it raised, "ValueError" being caught inside the loop
\* and "Exception" by the handler around it.
ProcessLine(date_stats, line) ==
    IF line.kind = "blank" THEN [stats |-> date_stats, raised |-> "none"]
    ELSE IF line.kind = "text" THEN [stats |-> date_stats, raised |-> "ValueError"]
    ELSE IF line.value.type # "object" THEN [stats |-> date_stats, raised |-> "Exception"]
    ELSE
      LET log_entry == line.value.members
          timestamp == Get(log_entry, "timestamp", EMPTY)
          model_name == Get(log_entry, "model", "unknown")
          token_usage == Get(log_entry, "token_usage", Object(EmptyDict))
      IN  IF token_usage.type # "object" THEN [stats |-> date_stats, raised |-> "Exception"]
          ELSE
            LET prompt_tokens == Get(token_usage.members, "prompt_tokens", Num(0))
                completion_tokens == Get(token_usage.members, "completion_tokens", Num(0))
            IN  IF ~CanAdd(prompt_tokens, completion_tokens)
                THEN [stats |-> date_stats, raised |-> "Exception"]
                ELSE
                  LET total_tokens == Get(token_usage.members, "total_tokens",
                                          PyAdd(prompt_tokens, completion_tokens))
                      s1 == [date_stats EXCEPT !.total_requests = @ + 1]
                  IN  IF prompt_tokens.type # "number"
                      THEN [stats |-> s1, raised |-> "Exception"]
                      ELSE
                        LET s2 == [s1 EXCEPT
                                     !.total_input_tokens = @ + prompt_tokens.n,
                                     !.total_output_tokens = @ + completion_tokens.n]
                        IN  IF total_tokens.type # "number"
                            THEN [stats |-> s2, raised |-> "Exception"]
                            ELSE
                              [stats |-> [s2 EXCEPT
                                  !.total_tokens = @ + total_tokens.n,
                                  !.details = Append(@,
                                      [timestamp |-> timestamp,
                                       model |-> model_name,
                                       tokens |-> [input_tokens |-> prompt_tokens.n,
                                                   output_tokens |-> completion_tokens.n,
                                                   total_tokens |-> total_tokens.n]])],
                               raised |-> "none"]

RECURSIVE ReadLines(_, _)
ReadLines(date_stats, lines) ==
    IF lines = <<>> THEN date_stats
    ELSE LET r == ProcessLine(date_stats, Head(lines))
         IN  IF r.raised = "Exception" THEN r.stats
             ELSE ReadLines(r.stats, Tail(lines))

\* parse_log_file(date) over the directory `directory`
parse_log_file(directory, date) ==
    IF date \notin DOMAIN directory THEN EmptyStats(date)
    ELSE ReadLines(EmptyStats(date), directory[date])

\* re.match(r"\d{4}-\d{2}-\d{2}", date_part): anchored at the start only
ReMatchDate(date_part) ==
    /\ Len(date_part) >= 10
    /\ \A i \in {1, 2, 3, 4, 6, 7, 9, 10} : IsDigit(date_part[i])
    /\ date_part[5] = "-"
    /\ date_part[8] = "-"

\* get_available_dates() over the directory `directory`
get_available_dates(directory) ==
    sorted({date_part \in DOMAIN directory : ReMatchDate(date_part)})

----------------------------------------------------------------------------
(* UsageReporter: pricing and cost                                         *)

DefaultInputPrice == 10      \* 1.0 per million tokens, in tenths
DefaultOutputPrice == 75     \* 7.5 per million tokens, in tenths
PerMillion == 1000000

\* _load_pricing_config(): the configuration, or the status of sys.exit
\* (lines 61-71); the file is missing, is not valid JSON, or holds a JSON object
_load_pricing_config_lenient(file) ==
    IF file.state = "missing" THEN [exited |-> TRUE, status |-> 1]
    ELSE IF file.state = "invalid" THEN [exited |-> FALSE, config |-> EmptyDict]
    ELSE [exited |-> FALSE, config |-> file.content]

_load_pricing_config(file) ==
    IF file.state = "missing" THEN [exited |-> TRUE, status |-> 1]
    ELSE IF file.state = "invalid" THEN [exited |-> TRUE, status |-> 1]
    ELSE [exited |-> FALSE, config |-> file.content]

\* str.lower() on the model identifiers in use
Lower(model_name) == IF model_name = "GLM" THEN "glm" ELSE model_name

\* a resolver that folds case before the lookup
_get_pricing_for_model_casefold(model_name) ==
    LET models == Get(pricing_config, "models", EmptyDict)
        default_pricing == Get(Get(pricing_config, "pricing", EmptyDict), "default", EmptyDict)
    IN  IF Lower(model_name) \in DOMAIN models
        THEN LET model_config == models[Lower(model_name)]
             IN  <<Get(model_config, "input_token_per_million",
                       Get(default_pricing, "input_token_per_million", DefaultInputPrice)),
                   Get(model_config, "output_token_per_million",
                       Get(default_pricing, "output_token_per_million", DefaultOutputPrice))>>
        ELSE <<Get(default_pricing, "input_token_per_million", DefaultInputPrice),
               Get(default_pricing, "output_token_per_million", DefaultOutputPrice)>>

\* _get_pricing_for_model(model_name), reading self.pricing_config
_get_pricing_for_model(model_name) ==
    LET models == Get(pricing_config, "models", EmptyDict)
        default_pricing == Get(Get(pricing_config, "pricing", EmptyDict), "default", EmptyDict)
    IN  IF model_name \in DOMAIN models
        THEN LET model_config == models[model_name]
             IN  <<Get(model_config, "input_token_per_million",
                       Get(default_pricing, "input_token_per_million", DefaultInputPrice)),
                   Get(model_config, "output_token_per_million",
                       Get(default_pricing, "output_token_per_million", DefaultOutputPrice))>>
        ELSE <<Get(default_pricing, "input_token_per_million", DefaultInputPrice),
               Get(default_pricing, "output_token_per_million", DefaultOutputPrice)>>

\* a cost calculation that charges output tokens at the input price
_calculate_cost_one_price(input_tokens, output_tokens, model_name) ==
    LET prices == _get_pricing_for_model(model_name)
        input_cost == input_tokens * prices[1]
        output_cost == output_tokens * prices[1]
    IN  [input_cost |-> input_cost, output_cost |-> output_cost,
         total_cost |-> input_cost + output_cost]

\* _calculate_cost: each cost is the numerator of a fraction over 10 * PerMillion
_calculate_cost(input_tokens, output_tokens, model_name) ==
    LET prices == _get_pricing_for_model(model_name)
        input_cost == input_tokens * prices[1]
        output_cost == output_tokens * prices[2]
    IN  [input_cost |-> input_cost, output_cost |-> output_cost,
         total_cost |-> input_cost + output_cost]

----------------------------------------------------------------------------
(* UsageReporter.generate_daily_report                                     *)

\* Iteration order of the dicts of the payload (the order of its JSON keys)
ApiOrder == <<"api-a", "api-b">>
ModelOrder == <<"glm", "gpt-x">>

RECURSIVE Sum(_)
Sum(s) == IF s = <<>> THEN 0 ELSE Head(s) + Sum(Tail(s))

\* d[k] = v of a Python dict
Put(d, k, v) == [x \in DOMAIN d \cup {k} |-> IF x = k THEN v ELSE d[x]]

\* for (api_endpoint, model_name) in the nested loops over apis and models
ApiModelItems(apis) ==
    LET all == <<<<ApiOrder[1], ModelOrder[1]>>, <<ApiOrder[1], ModelOrder[2]>>,
                 <<ApiOrder[2], ModelOrder[1]>>, <<ApiOrder[2], ModelOrder[2]>>>>
        Present(item) == /\ item[1] \in DOMAIN apis
                         /\ item[2] \in DOMAIN Get(apis[item[1]], "models", EmptyDict)
    IN  SelectSeq(all, Present)

DetailsOf(apis, item) == Get(apis[item[1]].models[item[2]], "details", <<>>)

\* the dates of the remote payload (lines 157-164)
RemoteDates(apis) ==
    LET items == ApiModelItems(apis)
        Timestamps(details) ==
            {Get(details[j], "timestamp", EMPTY) : j \in 1..Len(details)} \ {EMPTY}
    IN  UNION {{SplitT0(timestamp) : timestamp \in Timestamps(DetailsOf(apis, items[i]))} :
                  i \in 1..Len(items)}

\* the dates of the log directory, taken when GLM_ENABLED (lines 167-169)
GlmDates(directory) ==
    IF GLM_ENABLED
    THEN LET glm_dates == get_available_dates(directory)
         IN  {glm_dates[i] : i \in 1..Len(glm_dates)}
    ELSE {}

\* a report loop that takes the dates in descending order
DateOrderDescending(all_dates) ==
    LET ascending == sorted(all_dates)
    IN  [i \in 1..Len(ascending) |-> ascending[Len(ascending) + 1 - i]]

\* the order in which the dates are reported (line 172)
DateOrder(all_dates) == sorted(all_dates)

ZeroModelStats ==
    [requests |-> 0, input_tokens |-> 0, output_tokens |-> 0, total_tokens |-> 0,
     input_cost |-> 0, output_cost |-> 0, total_cost |-> 0]

ZeroDateStats(date) ==
    [date |-> date, total_requests |-> 0, total_input_tokens |-> 0,
     total_output_tokens |-> 0, total_tokens |-> 0, total_input_cost |-> 0,
     total_output_cost |-> 0, total_cost |-> 0, models |-> EmptyDict]

\* whether a remote detail is counted for `date` (line 200)
CountedOn(detail, date) ==
    LET timestamp == Get(detail, "timestamp", EMPTY)
    IN  timestamp # EMPTY /\ StartsWith(timestamp, date)

\* the loop over one model's details (lines 188-217): model_date_stats
RECURSIVE ModelDateStats(_, _, _)
ModelDateStats(details, date, model_name) ==
    IF details = <<>> THEN ZeroModelStats
    ELSE
      LET rest == ModelDateStats(SubSeq(details, 1, Len(details) - 1), date, model_name)
          detail == details[Len(details)]
      IN  IF ~CountedOn(detail, date) THEN rest
          ELSE
            LET tokens == Get(detail, "tokens", EmptyDict)
                input_tokens == Get(tokens, "input_tokens", 0)
                output_tokens == Get(tokens, "output_tokens", 0)
                total_tokens == Get(tokens, "total_tokens", input_tokens + output_tokens)
                costs == _calculate_cost(input_tokens, output_tokens, model_name)
            IN  [requests |-> rest.requests + 1,
                 input_tokens |-> rest.input_tokens + input_tokens,
                 output_tokens |-> rest.output_tokens + output_tokens,
                 total_tokens |-> rest.total_tokens + total_tokens,
                 input_cost |-> rest.input_cost + costs.input_cost,
                 output_cost |-> rest.output_cost + costs.output_cost,
                 total_cost |-> rest.total_cost + costs.total_cost]

\* the date totals after a group of records (lines 220-226 and 275-281)
AddToTotals(date_stats, model_stats) ==
    [date_stats EXCEPT
        !.total_requests = @ + model_stats.requests,
        !.total_input_tokens = @ + model_stats.input_tokens,
        !.total_output_tokens = @ + model_stats.output_tokens,
        !.total_tokens = @ + model_stats.total_tokens,
        !.total_input_cost = @ + model_stats.input_cost,
        !.total_output_cost = @ + model_stats.output_cost,
        !.total_cost = @ + model_stats.total_cost]

\* one (api_endpoint, model_name) iteration for a date (lines 187-229)
AddRemoteModel(date_stats, details, model_name) ==
    LET model_date_stats == ModelDateStats(details, date_stats.date, model_name)
        totalled == AddToTotals(date_stats, model_date_stats)
    IN  IF model_date_stats.requests > 0
        THEN [totalled EXCEPT !.models = Put(@, model_name, model_date_stats)]
        ELSE totalled

\* the loops over apis and models for a date (lines 186-229)
RECURSIVE AddRemote(_, _, _)
AddRemote(date_stats, apis, items) ==
    IF items = <<>> THEN date_stats
    ELSE AddRemote(AddRemoteModel(date_stats, DetailsOf(apis, Head(items)), Head(items)[2]),
                   apis, Tail(items))

\* glm_model_groups[model_name] with its costs (lines 236-272)
GlmModelGroup(details, model_name) ==
    LET mine == SelectSeq(details, LAMBDA detail : Get(detail, "model", "unknown") = model_name)
        Tokens(i) == Get(mine[i], "tokens", EmptyDict)
        In(i) == Get(Tokens(i), "input_tokens", 0)
        Out(i) == Get(Tokens(i), "output_tokens", 0)
        input_tokens == Sum([i \in 1..Len(mine) |-> In(i)])
        output_tokens == Sum([i \in 1..Len(mine) |-> Out(i)])
        total_tokens == Sum([i \in 1..Len(mine) |-> Get(Tokens(i), "total_tokens", In(i) + Out(i))])
        costs == _calculate_cost(input_tokens, output_tokens, model_name)
    IN  [requests |-> Len(mine), input_tokens |-> input_tokens,
         output_tokens |-> output_tokens, total_tokens |-> total_tokens,
         input_cost |-> costs.input_cost, output_cost |-> costs.output_cost,
         total_cost |-> costs.total_cost]

\* the loop over glm_model_groups (lines 262-284)
RECURSIVE AddGlmGroups(_, _, _)
AddGlmGroups(date_stats, details, model_names) ==
    IF model_names = {} THEN date_stats
    ELSE
      LET model_name == CHOOSE m \in model_names : TRUE
          model_stats == GlmModelGroup(details, model_name)
          totalled == AddToTotals(date_stats, model_stats)
      IN  AddGlmGroups([totalled EXCEPT !.models = Put(@, model_name, model_stats)],
                       details, model_names \ {model_name})

\* the log part of a date, taken whatever GLM_ENABLED says
AddGlmDataUnguarded(date_stats, directory) ==
    LET glm_data == parse_log_file(directory, date_stats.date)
        details == glm_data.details
    IN  IF glm_data.total_requests > 0
        THEN AddGlmGroups(date_stats, details,
                          {Get(details[i], "model", "unknown") : i \in 1..Len(details)})
        ELSE date_stats

\* the log part of a date, taken when GLM_ENABLED (lines 232-284)
AddGlmData(date_stats, directory) ==
    IF GLM_ENABLED
    THEN LET glm_data == parse_log_file(directory, date_stats.date)
             details == glm_data.details
         IN  IF glm_data.total_requests > 0
             THEN AddGlmGroups(date_stats, details,
                               {Get(details[i], "model", "unknown") : i \in 1..Len(details)})
             ELSE date_stats
    ELSE date_stats

\* date_stats of one date as it stands at line 286
DateStats(apis, directory, date) ==
    AddGlmData(AddRemote(ZeroDateStats(date), apis, ApiModelItems(apis)), directory)

\* a report that keeps every date
AppendAlways(report, date_stats) == Append(report, date_stats)

\* lines 286-287
AppendIfUsed(report, date_stats) ==
    IF date_stats.total_requests > 0 THEN Append(report, date_stats) ELSE report

RECURSIVE ReportLoop(_, _, _, _)
ReportLoop(report, apis, directory, dates) ==
    IF dates = <<>> THEN report
    ELSE ReportLoop(AppendIfUsed(report, DateStats(apis, directory, Head(dates))),
                    apis, directory, Tail(dates))

\* generate_daily_report(usage_data) with the log directory `directory`
generate_daily_report(data, directory) ==
    LET usage == Get(data, "usage", EmptyDict)
        apis == Get(usage, "apis", EmptyDict)
        all_dates == RemoteDates(apis) \cup GlmDates(directory)
    IN  ReportLoop(<<>>, apis, directory, DateOrder(all_dates))

----------------------------------------------------------------------------
(* The inputs of a report: what the remote endpoint has recorded and what  *)
(* the GLM subsystem has logged                                            *)

MaxRemote == 2      \* details in the remote payload
MaxLogLines == 2    \* lines in the log directory

RemoteDetails ==
    {[timestamp |-> TS_D1, tokens |-> [input_tokens |-> 100, output_tokens |-> 50]],
     [timestamp |-> TS_D1_SPACE,
      tokens |-> [input_tokens |-> 10, output_tokens |-> 5, total_tokens |-> 20]],
     [tokens |-> [input_tokens |-> 7, output_tokens |-> 3, total_tokens |-> 10]]}

LogEntry(members) == JsonLine(Object(members))
TokenUsage(p, c) == Object([prompt_tokens |-> Num(p), completion_tokens |-> Num(c)])

LogLines ==
    {TextLine,
     LogEntry([timestamp |-> TS_D1, model |-> "glm", token_usage |-> TokenUsage(1000, 500)]),
     LogEntry([timestamp |-> EMPTY, model |-> "gpt-x", token_usage |-> TokenUsage(4, 2)])}

LogDateTokens == {D1, D2}


Apis == Get(Get(usage_data, "usage", EmptyDict), "apis", EmptyDict)

RemoteCount ==
    LET items == ApiModelItems(Apis)
    IN  Sum([i \in 1..Len(items) |-> Len(DetailsOf(Apis, items[i]))])

RECURSIVE TotalLines(_, _)
TotalLines(directory, tokens) ==
    IF tokens = {} THEN 0
    ELSE LET t == CHOOSE t \in tokens : TRUE
         IN  Len(directory[t]) + TotalLines(directory, tokens \ {t})

LogLineCount == TotalLines(log_files, DOMAIN log_files)

\* UsageReporter.run has not been called
NoRun ==
    /\ CLI_PROXY_ENABLED = TRUE
    /\ endpoint = None
    /\ run_args = None
    /\ run_steps = <<>>

\* A reporter that has been constructed with the standard pricing table
Init ==
    /\ usage_data = [usage |-> [apis |-> EmptyDict]]
    /\ log_files = EmptyDict
    /\ GLM_ENABLED \in BOOLEAN
    /\ pricing_file = JsonFile(StandardPricing)
    /\ pricing_config = StandardPricing
    /\ daily_report = <<>>
    /\ parse_result = None
    /\ price_result = None
    /\ cost_result = None
    /\ exit_status = -1
    /\ pc = "idle"
    /\ cost_sums = None
    /\ available_dates = None
    /\ NoRun

\* the remote endpoint records one more request
RecordRemoteUsage(api_endpoint, model_name, detail) ==
    /\ pc = "idle"
    /\ RemoteCount < MaxRemote
    /\ LET models == Get(Get(Apis, api_endpoint, EmptyDict), "models", EmptyDict)
           details == Get(Get(models, model_name, EmptyDict), "details", <<>>)
       IN  usage_data' =
             [usage |-> [apis |-> Put(Apis, api_endpoint,
                 [models |-> Put(models, model_name,
                     [details |-> Append(details, detail)])])]]
    /\ UNCHANGED <<log_files, GLM_ENABLED, pricing_file, pricing_config, daily_report,
                   parse_result, price_result, cost_result, exit_status, pc,
                   cost_sums, available_dates, run_vars>>

\* the GLM subsystem creates token_usage_<date_token>.log
CreateLogFile(date_token) ==
    /\ pc = "idle"
    /\ date_token \notin DOMAIN log_files
    /\ log_files' = Put(log_files, date_token, <<>>)
    /\ UNCHANGED <<usage_data, GLM_ENABLED, pricing_file, pricing_config, daily_report,
                   parse_result, price_result, cost_result, exit_status, pc,
                   cost_sums, available_dates, run_vars>>

\* the GLM subsystem appends a line to a log file
AppendLogLine(date_token, line) ==
    /\ pc = "idle"
    /\ date_token \in DOMAIN log_files
    /\ LogLineCount < MaxLogLines
    /\ log_files' = [log_files EXCEPT ![date_token] = Append(@, line)]
    /\ UNCHANGED <<usage_data, GLM_ENABLED, pricing_file, pricing_config, daily_report,
                   parse_result, price_result, cost_result, exit_status, pc,
                   cost_sums, available_dates, run_vars>>

\* daily_report = self.generate_daily_report(usage_data)
GenerateDailyReport ==
    /\ pc = "idle"
    /\ daily_report' = generate_daily_report(usage_data, log_files)
    /\ pc' = "returned"
    /\ UNCHANGED <<usage_data, log_files, GLM_ENABLED, pricing_file, pricing_config,
                   parse_result, price_result, cost_result, exit_status,
                   cost_sums, available_dates, run_vars>>

Next ==
    \/ \E api_endpoint \in {ApiOrder[i] : i \in 1..Len(ApiOrder)},
          model_name \in {ModelOrder[i] : i \in 1..Len(ModelOrder)},
          detail \in RemoteDetails :
            RecordRemoteUsage(api_endpoint, model_name, detail)
    \/ \E date_token \in LogDateTokens : CreateLogFile(date_token)
    \/ \E date_token \in LogDateTokens, line \in LogLines : AppendLogLine(date_token, line)
    \/ GenerateDailyReport

Spec == Init /\ [][Next]_vars

----------------------------------------------------------------------------
(* Vocabulary of the properties of a report                                *)

Returned == pc = "returned"

Range(seq) == {seq[i] : i \in 1..Len(seq)}

ModelNames == {"glm", "gpt-x", "unknown"}

\* the remote details recorded for a model, over all API endpoints
RemoteDetailsOf(model_name) ==
    LET items == SelectSeq(ApiModelItems(Apis), LAMBDA item : item[2] = model_name)
        RECURSIVE Concat(_)
        Concat(its) == IF its = <<>> THEN <<>>
                       ELSE DetailsOf(Apis, Head(its)) \o Concat(Tail(its))
    IN  Concat(items)

HasTimestamp(detail) == Get(detail, "timestamp", EMPTY) # EMPTY

DateOf(detail) == SplitT0(Get(detail, "timestamp", EMPTY))

\* the remote records of a model whose timestamp carries the date
RemoteRecords(date, model_name) ==
    SelectSeq(RemoteDetailsOf(model_name),
              LAMBDA detail : HasTimestamp(detail) /\ DateOf(detail) = date)

\* the records of a model in the log file of the date
LocalRecords(date, model_name) ==
    SelectSeq(parse_log_file(log_files, date).details,
              LAMBDA detail : Get(detail, "model", "unknown") = model_name)

RECURSIVE SumOver(_, _)
SumOver(models, field) ==
    IF DOMAIN models = {} THEN 0
    ELSE LET m == CHOOSE m \in DOMAIN models : TRUE
         IN  models[m][field] + SumOver([x \in DOMAIN models \ {m} |-> models[x]], field)

TokenSum(details, field) ==
    Sum([i \in 1..Len(details) |->
            LET tokens == Get(details[i], "tokens", EmptyDict)
            IN  IF field = "total_tokens"
                THEN Get(tokens, field, Get(tokens, "input_tokens", 0) + Get(tokens, "output_tokens", 0))
                ELSE Get(tokens, field, 0)])

\* the dates that records or log files name
KnownDates == LogDateTokens \cup RemoteDates(Apis) \cup {daily_report[i].date : i \in 1..Len(daily_report)}

\* the requests the report counts on a date
RequestsOn(date) ==
    Sum([i \in 1..Len(daily_report) |->
            IF daily_report[i].date = date THEN daily_report[i].total_requests ELSE 0])

----------------------------------------------------------------------------
(* Properties of the report                                                *)

\* C1 (additivity): every DateBucket's total_requests, token totals and cost
\* totals equal the sums of the corresponding fields over its models mapping.
C1_Additivity ==
    Returned =>
        \A i \in 1..Len(daily_report) :
            LET bucket == daily_report[i]
            IN  /\ bucket.total_requests = SumOver(bucket.models, "requests")
                /\ bucket.total_input_tokens = SumOver(bucket.models, "input_tokens")
                /\ bucket.total_output_tokens = SumOver(bucket.models, "output_tokens")
                /\ bucket.total_tokens = SumOver(bucket.models, "total_tokens")
                /\ bucket.total_input_cost = SumOver(bucket.models, "input_cost")
                /\ bucket.total_output_cost = SumOver(bucket.models, "output_cost")
                /\ bucket.total_cost = SumOver(bucket.models, "total_cost")

\* C2 (multi-source merge): with the log source enabled, a model with records
\* on one date in the remote payload and in that date's log file has exactly
\* one ModelBucket for the date, holding the count and the token sums of the
\* records of both sources together.
C2_MultiSourceMerge ==
    (Returned /\ GLM_ENABLED) =>
        \A date \in KnownDates, model_name \in ModelNames :
            LET remote == RemoteRecords(date, model_name)
                local == LocalRecords(date, model_name)
                buckets == {i \in 1..Len(daily_report) :
                               /\ daily_report[i].date = date
                               /\ model_name \in DOMAIN daily_report[i].models}
            IN  (remote # <<>> /\ local # <<>>) =>
                    /\ Cardinality(buckets) = 1
                    /\ \A i \in buckets :
                          LET stats == daily_report[i].models[model_name]
                          IN  /\ stats.requests = Len(remote) + Len(local)
                              /\ stats.input_tokens =
                                   TokenSum(remote, "input_tokens") + TokenSum(local, "input_tokens")
                              /\ stats.output_tokens =
                                   TokenSum(remote, "output_tokens") + TokenSum(local, "output_tokens")
                              /\ stats.total_tokens =
                                   TokenSum(remote, "total_tokens") + TokenSum(local, "total_tokens")

\* the records that carry the date in their timestamp, over the enabled sources
RecordsDated(date) ==
    LET Dated(details) ==
            Len(SelectSeq(details, LAMBDA detail : HasTimestamp(detail) /\ DateOf(detail) = date))
        remote == Sum([i \in 1..Len(ApiModelItems(Apis)) |->
                          Dated(DetailsOf(Apis, ApiModelItems(Apis)[i]))])
        files == get_available_dates(log_files)
        local == Sum([i \in 1..Len(files) |-> Dated(parse_log_file(log_files, files[i]).details)])
    IN  remote + (IF GLM_ENABLED THEN local ELSE 0)

\* every record of the enabled sources has a non-empty timestamp
AllTimestamped ==
    /\ \A i \in 1..Len(ApiModelItems(Apis)) :
          \A detail \in Range(DetailsOf(Apis, ApiModelItems(Apis)[i])) : HasTimestamp(detail)
    /\ GLM_ENABLED =>
          \A date \in DOMAIN log_files :
              \A detail \in Range(parse_log_file(log_files, date).details) : HasTimestamp(detail)

\* C4 (date partitioning): every record with a non-empty timestamp is counted
\* in the DateBucket of the date before the "T" of its timestamp and in no
\* other, so that, when all records have one, each date's bucket counts
\* exactly the records that carry that date.
C4_DatePartitioning ==
    (Returned /\ AllTimestamped) =>
        \A date \in KnownDates : RequestsOn(date) = RecordsDated(date)

\* the payload without the details whose timestamp is empty or missing
WithoutUntimedDetails(data) ==
    LET apis == Get(Get(data, "usage", EmptyDict), "apis", EmptyDict)
    IN  [usage |-> [apis |->
            [api_endpoint \in DOMAIN apis |->
                [models |->
                    [model_name \in DOMAIN apis[api_endpoint].models |->
                        [details |-> SelectSeq(apis[api_endpoint].models[model_name].details,
                                               HasTimestamp)]]]]]]

\* the log directory without the entries whose timestamp is empty or missing
WithoutUntimedLines(directory) ==
    LET Untimed(line) ==
            /\ line.kind = "json"
            /\ line.value.type = "object"
            /\ Get(line.value.members, "timestamp", EMPTY) = EMPTY
    IN  [date \in DOMAIN directory |->
            SelectSeq(directory[date], LAMBDA line : ~Untimed(line))]

\* C5: a record whose timestamp is empty or missing, remote or local, changes
\* nothing in the report: the report is the one of the input without it.
C5_UntimedExcluded ==
    Returned =>
        daily_report = generate_daily_report(WithoutUntimedDetails(usage_data),
                                             WithoutUntimedLines(log_files))

\* C8: with the log source disabled the report does not depend on the log
\* directory: it is the report of the same payload over an empty directory.
C8_DisabledLogsIgnored ==
    (Returned /\ ~GLM_ENABLED) =>
        daily_report = generate_daily_report(usage_data, EmptyDict)

\* C8 witness: a report made with the log source disabled while a log file
\* of a date of the payload holds a valid record.
C8_Witness ==
    /\ Returned /\ ~GLM_ENABLED
    /\ \E i \in 1..Len(daily_report) :
          /\ daily_report[i].date \in DOMAIN log_files
          /\ parse_log_file(log_files, daily_report[i].date).total_requests > 0

\* whether some record of an enabled source is counted on the date
HasRecord(date) ==
    \/ \E i \in 1..Len(ApiModelItems(Apis)) :
          \E detail \in Range(DetailsOf(Apis, ApiModelItems(Apis)[i])) : CountedOn(detail, date)
    \/ GLM_ENABLED /\ parse_log_file(log_files, date).details # <<>>

\* C9 (empty-bucket exclusion): every DateBucket of the report has at least
\* one request and a non-empty models mapping, and its date has a record; a
\* date without records, such as one whose log file holds no valid line, is
\* not in the report.
C9_NoEmptyBucket ==
    Returned =>
        /\ \A i \in 1..Len(daily_report) :
              /\ daily_report[i].total_requests >= 1
              /\ DOMAIN daily_report[i].models # {}
              /\ HasRecord(daily_report[i].date)
        /\ \A date \in KnownDates :
              ~HasRecord(date) => \A i \in 1..Len(daily_report) : daily_report[i].date # date

\* C9 witness: a report with a bucket, made with the log source enabled while
\* the log file of another date exists and holds no valid line.
C9_Witness ==
    /\ Returned /\ GLM_ENABLED
    /\ daily_report # <<>>
    /\ \E date \in DOMAIN log_files :
          /\ log_files[date] # <<>>
          /\ ~HasRecord(date)
          /\ \A i \in 1..Len(daily_report) : daily_report[i].date # date

\* C10 (report ordering): the DateBuckets are in strictly ascending order of
\* their date strings, so no date has two buckets.
C10_AscendingDates ==
    Returned =>
        \A i, j \in 1..Len(daily_report) :
            i < j => StrLess(daily_report[i].date, daily_report[j].date)

\* C10 witness: a report of three dates, two from the payload, which names
\* the later of them first, and one from the log directory.
C10_Witness ==
    /\ Returned
    /\ Len(daily_report) = 3
    /\ \E i \in 1..Len(ApiModelItems(Apis)) :
          LET details == DetailsOf(Apis, ApiModelItems(Apis)[i])
          IN  /\ Len(details) = 2
              /\ HasTimestamp(details[1]) /\ HasTimestamp(details[2])
              /\ StrLess(DateOf(details[2]), DateOf(details[1]))

----------------------------------------------------------------------------
(* The log adapter on its own: one log file is written, then parsed        *)

MaxFileLines == 3    \* lines in the log file

FileLines ==
    {BlankLine, TextLine, JsonLine(Array),
     LogEntry([timestamp |-> TS_D1, model |-> "glm", token_usage |-> TokenUsage(1000, 500)]),
     LogEntry([token_usage |-> Object([prompt_tokens |-> Num(3), completion_tokens |-> Num(4),
                                       total_tokens |-> Num(9)])]),
     LogEntry([model |-> "glm", token_usage |-> Object([prompt_tokens |-> Str,
                                                        completion_tokens |-> Str])]),
     LogEntry([model |-> "glm", token_usage |-> Object([prompt_tokens |-> Num(1),
                                                        completion_tokens |-> Num(2),
                                                        total_tokens |-> Str])]),
     LogEntry([model |-> "glm", token_usage |-> Object([prompt_tokens |-> Null])]),
     LogEntry([model |-> "glm", token_usage |-> Str])}

InitParse ==
    /\ usage_data = [usage |-> [apis |-> EmptyDict]]
    /\ log_files = EmptyDict
    /\ GLM_ENABLED = TRUE
    /\ pricing_file = JsonFile(StandardPricing)
    /\ pricing_config = StandardPricing
    /\ daily_report = <<>>
    /\ parse_result = None
    /\ price_result = None
    /\ cost_result = None
    /\ exit_status = -1
    /\ pc = "idle"
    /\ cost_sums = None
    /\ available_dates = None
    /\ NoRun

\* the GLM subsystem appends a line to token_usage_2024-01-01.log
WriteLogLine(line) ==
    /\ pc = "idle"
    /\ D1 \in DOMAIN log_files
    /\ Len(log_files[D1]) < MaxFileLines
    /\ log_files' = [log_files EXCEPT ![D1] = Append(@, line)]
    /\ UNCHANGED <<usage_data, GLM_ENABLED, pricing_file, pricing_config, daily_report,
                   parse_result, price_result, cost_result, exit_status, pc,
                   cost_sums, available_dates, run_vars>>

\* glm_data = self.glm_parser.parse_log_file(date)
ParseLogFile(date) ==
    /\ pc = "idle"
    /\ parse_result' = parse_log_file(log_files, date)
    /\ pc' = "parsed"
    /\ UNCHANGED <<usage_data, log_files, GLM_ENABLED, pricing_file, pricing_config,
                   daily_report, price_result, cost_result, exit_status,
                   cost_sums, available_dates, run_vars>>

NextParse ==
    \/ CreateLogFile(D1)
    \/ \E line \in FileLines : WriteLogLine(line)
    \/ \E date \in LogDateTokens : ParseLogFile(date)

SpecParse == InitParse /\ [][NextParse]_vars

\* a line that is a JSON object whose fields have the types of a log record
ValidLine(line) ==
    /\ line.kind = "json"
    /\ line.value.type = "object"
    /\ LET token_usage == Get(line.value.members, "token_usage", Object(EmptyDict))
       IN  /\ token_usage.type = "object"
           /\ \A k \in DOMAIN token_usage.members : token_usage.members[k].type = "number"

ValidLineCount(date) ==
    IF date \in DOMAIN log_files
    THEN Len(SelectSeq(log_files[date], ValidLine))
    ELSE 0

\* C3 (fault isolation): parse_log_file returns exactly one detail record per
\* valid line of the file, wherever its malformed lines sit.
C3_FaultIsolation ==
    pc = "parsed" => Len(parse_result.details) = ValidLineCount(parse_result.date)

----------------------------------------------------------------------------
(* The pricing resolver on its own: a reporter is constructed over a       *)
(* pricing configuration file, then asked for prices and costs             *)

PricingFiles ==
    {[state |-> "missing"],
     [state |-> "invalid"],
     JsonFile(StandardPricing),
     JsonFile([models |-> [glm |-> [input_token_per_million |-> 5,
                                    output_token_per_million |-> 20]]]),
     JsonFile([models |-> [glm |-> [input_token_per_million |-> 5]],
               pricing |-> [default |-> [input_token_per_million |-> 20,
                                         output_token_per_million |-> 60]]]),
     JsonFile([pricing |-> [default |-> [output_token_per_million |-> 60]]])}

QueryModels == {"glm", "GLM", "glm-4", "gpt-x"}
QueryInputTokens == {0, 300}
QueryOutputTokens == {150}

InitPricing ==
    /\ usage_data = [usage |-> [apis |-> EmptyDict]]
    /\ log_files = EmptyDict
    /\ GLM_ENABLED = FALSE
    /\ pricing_file \in PricingFiles
    /\ pricing_config = None
    /\ daily_report = <<>>
    /\ parse_result = None
    /\ price_result = None
    /\ cost_result = None
    /\ exit_status = -1
    /\ pc = "start"
    /\ cost_sums = None
    /\ available_dates = None
    /\ NoRun

\* UsageReporter.__init__: self.pricing_config = self._load_pricing_config()
LoadPricingConfig ==
    /\ pc = "start"
    /\ LET loaded == _load_pricing_config(pricing_file)
       IN  IF loaded.exited
           THEN /\ exit_status' = loaded.status
                /\ pc' = "exited"
                /\ UNCHANGED pricing_config
           ELSE /\ pricing_config' = loaded.config
                /\ pc' = "constructed"
                /\ UNCHANGED exit_status
    /\ UNCHANGED <<usage_data, log_files, GLM_ENABLED, pricing_file, daily_report,
                   parse_result, price_result, cost_result,
                   cost_sums, available_dates, run_vars>>

\* self._get_pricing_for_model(model_name)
GetPricingForModel(model_name) ==
    /\ pc = "constructed"
    /\ price_result' = [model_name |-> model_name,
                        prices |-> _get_pricing_for_model(model_name)]
    /\ UNCHANGED <<usage_data, log_files, GLM_ENABLED, pricing_file, pricing_config,
                   daily_report, parse_result, cost_result, exit_status, pc,
                   cost_sums, available_dates, run_vars>>

\* self._calculate_cost(input_tokens, output_tokens, model_name)
CalculateCost(input_tokens, output_tokens, model_name) ==
    /\ pc = "constructed"
    /\ cost_result' = [input_tokens |-> input_tokens, output_tokens |-> output_tokens,
                       model_name |-> model_name,
                       costs |-> _calculate_cost(input_tokens, output_tokens, model_name)]
    /\ UNCHANGED <<usage_data, log_files, GLM_ENABLED, pricing_file, pricing_config,
                   daily_report, parse_result, price_result, exit_status, pc,
                   cost_sums, available_dates, run_vars>>

NextPricing ==
    \/ LoadPricingConfig
    \/ \E model_name \in QueryModels : GetPricingForModel(model_name)
    \/ \E input_tokens \in QueryInputTokens, output_tokens \in QueryOutputTokens,
          model_name \in QueryModels :
            CalculateCost(input_tokens, output_tokens, model_name)

SpecPricing == InitPricing /\ [][NextPricing]_vars

HasBothPrices(rule) ==
    {"input_token_per_million", "output_token_per_million"} \subseteq DOMAIN rule

PricePair(rule) == <<rule["input_token_per_million"], rule["output_token_per_million"]>>

\* the default rule of a pricing table, EmptyDict when it has none
DefaultRule(table) == Get(Get(table, "pricing", EmptyDict), "default", EmptyDict)

\* C6 (pricing fallback): a model that is not a key of the models mapping
\* resolves to the default rule's pair of prices, also when it differs from a
\* key only in case or contains one; a model that is a key resolves to its own
\* rule.
C6_PricingFallback ==
    price_result # None =>
        LET models == Get(pricing_config, "models", EmptyDict)
            default == DefaultRule(pricing_config)
            model_name == price_result.model_name
        IN  /\ (model_name \notin DOMAIN models /\ HasBothPrices(default)) =>
                   price_result.prices = PricePair(default)
            /\ (model_name \in DOMAIN models /\ HasBothPrices(models[model_name])) =>
                   price_result.prices = PricePair(models[model_name])

\* C6 witness: the resolver has been asked for "GLM" over a table that has a
\* rule for "glm" and a default rule with other prices.
C6_Witness ==
    /\ price_result # None
    /\ price_result.model_name = "GLM"
    /\ "glm" \in DOMAIN Get(pricing_config, "models", EmptyDict)
    /\ HasBothPrices(DefaultRule(pricing_config))
    /\ HasBothPrices(pricing_config.models["glm"])
    /\ PricePair(DefaultRule(pricing_config)) # PricePair(pricing_config.models["glm"])

Unreadable(file) == file.state \in {"missing", "invalid"}

LacksDefault(file) ==
    file.state = "json" /\ "default" \notin DOMAIN Get(file.content, "pricing", EmptyDict)

\* C7 as stated: a pricing configuration that is missing, malformed or without
\* a default rule aborts the run with a non-zero status, and no cost is ever
\* computed from it.
C7_NoDefaultFatal ==
    (Unreadable(pricing_file) \/ LacksDefault(pricing_file)) =>
        /\ pc \in {"start", "exited"}
        /\ pc = "exited" => exit_status > 0
        /\ cost_result = None

\* C7 as amended: a pricing configuration file that is missing or is not valid
\* JSON aborts the run with status 1 before any price or cost is computed, and
\* nothing else does; over a table without a default rule the run goes on and
\* a model without a rule of its own costs the built-in 1.0 and 7.5 per million.
C7_UnreadableFatal ==
    /\ Unreadable(pricing_file) =>
          /\ pc \in {"start", "exited"}
          /\ pc = "exited" => exit_status = 1
          /\ price_result = None /\ cost_result = None
    /\ pc = "exited" => Unreadable(pricing_file)
    /\ (LacksDefault(pricing_file) /\ cost_result # None) =>
          (cost_result.model_name \notin DOMAIN Get(pricing_config, "models", EmptyDict) =>
              /\ cost_result.costs.input_cost = cost_result.input_tokens * DefaultInputPrice
              /\ cost_result.costs.output_cost = cost_result.output_tokens * DefaultOutputPrice)

\* C7 witness: the constructor has exited over a file that is not valid JSON.
C7_Witness ==
    /\ pc = "exited"
    /\ exit_status = 1
    /\ pricing_file.state = "invalid"

----------------------------------------------------------------------------
(* Python floats. The costs are floats (IEEE-754 binary64, every result    *)
(* rounded to the nearest float, ties to even). A positive float is         *)
(* [m, exp]: the natural number m, which has Precision binary digits, times *)
(* 2^exp; 0.0 has m = 0. A natural number is the sequence of its digits in  *)
(* base 2^LimbBits, least significant first, <<>> for 0. The costs of the   *)
(* modelled inputs are far from the overflow and subnormal ranges.          *)

Precision == 53
LimbBits == 11
Base == 2^LimbBits

FloatZero == [m |-> <<>>, exp |-> 0]

Zeros(n) == [i \in 1..n |-> 0]

\* the digit of 2^(LimbBits * (i-1)), 0 beyond the last
Limb(a, i) == IF i \in 1..Len(a) THEN a[i] ELSE 0

\* without the zeros at the most significant end
RECURSIVE Trim(_)
Trim(a) == IF a # <<>> /\ a[Len(a)] = 0 THEN Trim(SubSeq(a, 1, Len(a) - 1)) ELSE a

\* the digits of the number whose columns hold `cols`, carries propagated
RECURSIVE Carry(_, _)
Carry(cols, carry) ==
    IF cols = <<>>
    THEN (IF carry = 0 THEN <<>> ELSE <<carry % Base>> \o Carry(<<>>, carry \div Base))
    ELSE LET v == Head(cols) + carry
         IN  <<v % Base>> \o Carry(Tail(cols), v \div Base)

NatOf(n) == Carry(<<>>, n)

AddNat(a, b) ==
    LET n == IF Len(a) > Len(b) THEN Len(a) ELSE Len(b)
    IN  Trim(Carry([k \in 1..n |-> Limb(a, k) + Limb(b, k)], 0))

MulNat(a, b) ==
    IF a = <<>> \/ b = <<>> THEN <<>>
    ELSE Trim(Carry([k \in 1..(Len(a) + Len(b) - 1) |->
                        Sum([i \in 1..Len(a) |-> a[i] * Limb(b, k + 1 - i)])], 0))

\* a * 2^k
ShiftLeft(a, k) ==
    Trim(Carry(Zeros(k \div LimbBits) \o [i \in 1..Len(a) |-> a[i] * 2^(k % LimbBits)], 0))

\* a \div 2^k
ShiftRight(a, k) ==
    LET whole == k \div LimbBits
        part == k % LimbBits
        b == SubSeq(a, whole + 1, Len(a))
    IN  Trim([i \in 1..Len(b) |->
                 (b[i] \div 2^part) + (Limb(b, i + 1) % 2^part) * 2^(LimbBits - part)])

\* whether a % 2^k is not 0
LowBitsSet(a, k) ==
    \/ \E i \in 1..(k \div LimbBits) : Limb(a, i) # 0
    \/ Limb(a, k \div LimbBits + 1) % 2^(k % LimbBits) # 0

\* the binary digit of 2^j
Bit(a, j) == (Limb(a, j \div LimbBits + 1) \div 2^(j % LimbBits)) % 2

\* the number of binary digits
BitLength(a) ==
    IF a = <<>> THEN 0
    ELSE LimbBits * (Len(a) - 1)
           + (CHOOSE k \in 1..LimbBits : 2^(k - 1) <= a[Len(a)] /\ a[Len(a)] < 2^k)

\* the float nearest to n * 2^exp, or, when `sticky`, to a value just above it
RoundToFloat(n, exp, sticky) ==
    LET length == BitLength(n)
        drop == length - Precision
    IN  IF length = 0 THEN FloatZero
        ELSE IF drop <= 0 THEN [m |-> ShiftLeft(n, 0 - drop), exp |-> exp + drop]
        ELSE
          LET kept == ShiftRight(n, drop)
              below == sticky \/ LowBitsSet(n, drop - 1)
              up == Bit(n, drop - 1) = 1 /\ (below \/ Bit(kept, 0) = 1)
              raised == AddNat(kept, NatOf(1))
          IN  IF ~up THEN [m |-> kept, exp |-> exp + drop]
              ELSE IF BitLength(raised) = Precision THEN [m |-> raised, exp |-> exp + drop]
              ELSE [m |-> ShiftRight(raised, 1), exp |-> exp + drop + 1]

\* the digits of r / d after the first `places` places, most significant
\* first, until they hold more binary digits than a float keeps
RECURSIVE LongDivision(_, _, _, _)
LongDivision(r, d, digits, places) ==
    IF r = 0 \/ Len(digits) * LimbBits > Precision + 2 * LimbBits
    THEN [digits |-> digits, places |-> places, sticky |-> r # 0]
    ELSE LongDivision((r * Base) % d, d,
                      IF digits = <<>> /\ (r * Base) \div d = 0 THEN digits
                      ELSE Append(digits, (r * Base) \div d),
                      places + 1)

Reverse(s) == [i \in 1..Len(s) |-> s[Len(s) + 1 - i]]

\* n / d of two ints, and the float of the decimal literal n/d
FloatQuotient(n, d) ==
    LET q == LongDivision(n % d, d, Reverse(NatOf(n \div d)), 0)
    IN  RoundToFloat(Reverse(q.digits), 0 - LimbBits * q.places, q.sticky)

\* x + y
FloatAdd(x, y) ==
    IF x.m = <<>> THEN y
    ELSE IF y.m = <<>> THEN x
    ELSE LET e == IF x.exp < y.exp THEN x.exp ELSE y.exp
         IN  RoundToFloat(AddNat(ShiftLeft(x.m, x.exp - e), ShiftLeft(y.m, y.exp - e)),
                          e, FALSE)

\* x * y
FloatMul(x, y) ==
    IF x.m = <<>> \/ y.m = <<>> THEN FloatZero
    ELSE RoundToFloat(MulNat(x.m, y.m), x.exp + y.exp, FALSE)

\* 2 * x, which is exact
Twice(x) == IF x.m = <<>> THEN x ELSE [x EXCEPT !.exp = @ + 1]

\* a price of the pricing table (kept in tenths) as the float Python reads
PriceTenths == 10
FloatPrice(price) == FloatQuotient(price, PriceTenths)

\* _calculate_cost as Python computes it, in floats
_calculate_cost_float(input_tokens, output_tokens, model_name) ==
    LET prices == _get_pricing_for_model(model_name)
        input_cost == FloatMul(FloatQuotient(input_tokens, PerMillion), FloatPrice(prices[1]))
        output_cost == FloatMul(FloatQuotient(output_tokens, PerMillion), FloatPrice(prices[2]))
    IN  [input_cost |-> input_cost, output_cost |-> output_cost,
         total_cost |-> FloatAdd(input_cost, output_cost)]

ZeroCosts == [input_cost |-> FloatZero, output_cost |-> FloatZero, total_cost |-> FloatZero]

\* the cost fields of model_date_stats after the loop over one model's
\* details (lines 188-217), as Python computes them
RECURSIVE ModelDateCosts(_, _, _)
ModelDateCosts(details, date, model_name) ==
    IF details = <<>> THEN ZeroCosts
    ELSE
      LET rest == ModelDateCosts(SubSeq(details, 1, Len(details) - 1), date, model_name)
          detail == details[Len(details)]
      IN  IF ~CountedOn(detail, date) THEN rest
          ELSE
            LET tokens == Get(detail, "tokens", EmptyDict)
                costs == _calculate_cost_float(Get(tokens, "input_tokens", 0),
                                               Get(tokens, "output_tokens", 0), model_name)
            IN  [input_cost |-> FloatAdd(rest.input_cost, costs.input_cost),
                 output_cost |-> FloatAdd(rest.output_cost, costs.output_cost),
                 total_cost |-> FloatAdd(rest.total_cost, costs.total_cost)]

----------------------------------------------------------------------------
(* The cost sums of a remote model on their own: the endpoint records       *)
(* requests, then the costs of one model's details are summed for a date    *)

CostDetails ==
    {[timestamp |-> TS_D1, tokens |-> [input_tokens |-> 1, output_tokens |-> 1]],
     [timestamp |-> TS_D1, tokens |-> [input_tokens |-> 8, output_tokens |-> 1]],
     [timestamp |-> TS_D2, tokens |-> [input_tokens |-> 100, output_tokens |-> 50]]}

InitCostSums ==
    /\ usage_data = [usage |-> [apis |-> EmptyDict]]
    /\ log_files = EmptyDict
    /\ GLM_ENABLED = FALSE
    /\ pricing_file = JsonFile(StandardPricing)
    /\ pricing_config = StandardPricing
    /\ daily_report = <<>>
    /\ parse_result = None
    /\ price_result = None
    /\ cost_result = None
    /\ exit_status = -1
    /\ pc = "idle"
    /\ cost_sums = None
    /\ available_dates = None
    /\ NoRun

\* the loop over the details of one model of one API endpoint for a date
\* (lines 188-217), as far as the costs of model_date_stats go
SumModelCosts(api_endpoint, model_name, date) ==
    /\ pc = "idle"
    /\ api_endpoint \in DOMAIN Apis
    /\ model_name \in DOMAIN Apis[api_endpoint].models
    /\ LET details == DetailsOf(Apis, <<api_endpoint, model_name>>)
       IN  cost_sums' = [details |-> details, date |-> date, model_name |-> model_name,
                         costs |-> ModelDateCosts(details, date, model_name)]
    /\ pc' = "summed"
    /\ UNCHANGED <<usage_data, log_files, GLM_ENABLED, pricing_file, pricing_config,
                   daily_report, parse_result, price_result, cost_result, exit_status,
                   available_dates, run_vars>>

NextCostSums ==
    \/ \E api_endpoint \in {ApiOrder[i] : i \in 1..Len(ApiOrder)},
          model_name \in {ModelOrder[i] : i \in 1..Len(ModelOrder)},
          detail \in CostDetails :
            RecordRemoteUsage(api_endpoint, model_name, detail)
    \/ \E api_endpoint \in {ApiOrder[i] : i \in 1..Len(ApiOrder)},
          model_name \in {ModelOrder[i] : i \in 1..Len(ModelOrder)},
          date \in LogDateTokens :
            SumModelCosts(api_endpoint, model_name, date)

SpecCostSums == InitCostSums /\ [][NextCostSums]_vars

\* the sequence in which every record appears twice
Doubled(records) == [i \in 1..(2 * Len(records)) |-> records[(i + 1) \div 2]]

\* C11 (merge idempotence), for the ModelBucket of a remote model: when every
\* detail of the model is duplicated, the bucket's request count and token
\* sums are twice what they were, and so are its input, output and total cost.
C11_MergeIdempotence ==
    pc = "summed" =>
        LET details == cost_sums.details
            date == cost_sums.date
            model_name == cost_sums.model_name
            stats == ModelDateStats(details, date, model_name)
            stats2 == ModelDateStats(Doubled(details), date, model_name)
            costs2 == ModelDateCosts(Doubled(details), date, model_name)
        IN  /\ stats2.requests = 2 * stats.requests
            /\ stats2.input_tokens = 2 * stats.input_tokens
            /\ stats2.output_tokens = 2 * stats.output_tokens
            /\ stats2.total_tokens = 2 * stats.total_tokens
            /\ costs2.input_cost = Twice(cost_sums.costs.input_cost)
            /\ costs2.output_cost = Twice(cost_sums.costs.output_cost)
            /\ costs2.total_cost = Twice(cost_sums.costs.total_cost)

----------------------------------------------------------------------------
(* The report over a pricing table whose default rule is (1.0, 7.5) per     *)
(* million, with remote records of 100 + 50 and 200 + 100 tokens            *)

ExamplePricing ==
    [models |-> [glm |-> [input_token_per_million |-> 5, output_token_per_million |-> 20]],
     pricing |-> [default |-> [input_token_per_million |-> 10,
                               output_token_per_million |-> 75]]]

ExampleDetails ==
    {[timestamp |-> TS_D1, tokens |-> [input_tokens |-> 100, output_tokens |-> 50]],
     [timestamp |-> TS_D1, tokens |-> [input_tokens |-> 200, output_tokens |-> 100]],
     [timestamp |-> TS_D2,
      tokens |-> [input_tokens |-> 200, output_tokens |-> 100, total_tokens |-> 300]]}

InitExample ==
    /\ usage_data = [usage |-> [apis |-> EmptyDict]]
    /\ log_files = EmptyDict
    /\ GLM_ENABLED = TRUE
    /\ pricing_file = JsonFile(ExamplePricing)
    /\ pricing_config = ExamplePricing
    /\ daily_report = <<>>
    /\ parse_result = None
    /\ price_result = None
    /\ cost_result = None
    /\ exit_status = -1
    /\ pc = "idle"
    /\ cost_sums = None
    /\ available_dates = None
    /\ NoRun

NextExample ==
    \/ \E api_endpoint \in {ApiOrder[i] : i \in 1..Len(ApiOrder)},
          model_name \in {ModelOrder[i] : i \in 1..Len(ModelOrder)},
          detail \in ExampleDetails :
            RecordRemoteUsage(api_endpoint, model_name, detail)
    \/ \E date_token \in LogDateTokens : CreateLogFile(date_token)
    \/ \E date_token \in LogDateTokens, line \in LogLines : AppendLogLine(date_token, line)
    \/ GenerateDailyReport

SpecExample == InitExample /\ [][NextExample]_vars

\* the payload is two gpt-x records on 2024-01-01, of 100 + 50 and 200 + 100
\* tokens, and the log directory has no file for the date
ExampleInput ==
    /\ DOMAIN Apis = {"api-a"}
    /\ DOMAIN Apis["api-a"].models = {"gpt-x"}
    /\ LET details == Apis["api-a"].models["gpt-x"].details
       IN  /\ Len(details) = 2
           /\ details[1] # details[2]
           /\ \A i \in 1..2 : details[i].timestamp = TS_D1
    /\ D1 \notin DOMAIN log_files

\* C12 (cost of a bucket): every ModelBucket's input cost is its input token
\* sum times the model's input price per million, its output cost likewise,
\* and its total cost their sum, the prices being the resolver's; two gpt-x
\* records of 100 + 50 and 200 + 100 tokens on one date, at the default prices
\* (1.0, 7.5), give 2 requests, 300 and 150 tokens and the costs 0.0003,
\* 0.001125 and 0.001425 (costs are numerators over 10 * PerMillion).
C12_BucketCost ==
    Returned =>
        /\ \A i \in 1..Len(daily_report) :
              \A model_name \in DOMAIN daily_report[i].models :
                  LET bucket == daily_report[i].models[model_name]
                      prices == _get_pricing_for_model(model_name)
                  IN  /\ bucket.input_cost = bucket.input_tokens * prices[1]
                      /\ bucket.output_cost = bucket.output_tokens * prices[2]
                      /\ bucket.total_cost = bucket.input_cost + bucket.output_cost
        /\ ExampleInput =>
              \E i \in 1..Len(daily_report) :
                  /\ daily_report[i].date = D1
                  /\ daily_report[i].models =
                       [m \in {"gpt-x"} |->
                           [requests |-> 2, input_tokens |-> 300, output_tokens |-> 150,
                            total_tokens |-> 450, input_cost |-> 3000,
                            output_cost |-> 11250, total_cost |-> 14250]]

\* C12 witness: a report of the two gpt-x records of the example.
C12_Witness ==
    /\ Returned
    /\ ExampleInput
    /\ \E i \in 1..Len(daily_report) :
          /\ daily_report[i].date = D1
          /\ daily_report[i].models["gpt-x"].requests = 2
          /\ daily_report[i].models["gpt-x"].total_cost = 14250

----------------------------------------------------------------------------
(* UsageReporter.run, step by step: fetch, generate, display                *)

\* a fetch that goes on with an empty payload when the request fails
fetch_usage_data_lenient(server) ==
    IF server.status = "ok"
    THEN [exited |-> FALSE, data |-> server.payload]
    ELSE [exited |-> FALSE, data |-> EmptyDict]

\* fetch_usage_data: requests.get raises when the endpoint is unreachable and
\* raise_for_status when it answers with an error status; sys.exit(1) on both
fetch_usage_data(server) ==
    IF server.status = "ok"
    THEN [exited |-> FALSE, data |-> server.payload]
    ELSE [exited |-> TRUE, status |-> 1]

ValidLogLine ==
    LogEntry([timestamp |-> TS_D1, model |-> "glm", token_usage |-> TokenUsage(1000, 500)])

RunLogFiles == {EmptyDict, [date_token \in {D1} |-> <<ValidLogLine>>]}

RunPayloads ==
    {EmptyDict,
     [usage |-> [apis |-> EmptyDict]],
     [usage |-> [apis |-> [api \in {"api-a"} |-> [models |-> [m \in {"gpt-x"} |->
         [details |-> <<[timestamp |-> TS_D1,
                         tokens |-> [input_tokens |-> 100, output_tokens |-> 50]]>>]]]]]]}

Endpoints ==
    {[status |-> "unreachable"], [status |-> "error_status"]}
        \cup {[status |-> "ok", payload |-> payload] : payload \in RunPayloads}

\* A reporter that has been constructed; run has not been called
InitRun ==
    /\ usage_data = None
    /\ log_files \in RunLogFiles
    /\ GLM_ENABLED \in BOOLEAN
    /\ pricing_file = JsonFile(StandardPricing)
    /\ pricing_config = StandardPricing
    /\ daily_report = <<>>
    /\ parse_result = None
    /\ price_result = None
    /\ cost_result = None
    /\ exit_status = -1
    /\ pc = "idle"
    /\ cost_sums = None
    /\ available_dates = None
    /\ CLI_PROXY_ENABLED \in BOOLEAN
    /\ endpoint \in Endpoints
    /\ run_args = None
    /\ run_steps = <<>>

\* reporter.run(show_details, show_total_only), up to line 390
Run(show_details, show_total_only) ==
    /\ pc = "idle"
    /\ run_args' = [show_details |-> show_details, show_total_only |-> show_total_only]
    /\ usage_data' = EmptyDict
    /\ pc' = IF CLI_PROXY_ENABLED THEN "fetch" ELSE "generate"
    /\ UNCHANGED <<log_files, GLM_ENABLED, pricing_file, pricing_config, daily_report,
                   parse_result, price_result, cost_result, exit_status,
                   cost_sums, available_dates, CLI_PROXY_ENABLED, endpoint, run_steps>>

\* usage_data = self.fetch_usage_data() (line 391); SystemExit passes the
\* except clauses of run
FetchUsageData ==
    /\ pc = "fetch"
    /\ run_steps' = Append(run_steps, "fetch_usage_data")
    /\ LET fetched == fetch_usage_data(endpoint)
       IN  IF fetched.exited
           THEN /\ exit_status' = fetched.status
                /\ pc' = "exited"
                /\ UNCHANGED usage_data
           ELSE /\ usage_data' = fetched.data
                /\ pc' = "generate"
                /\ UNCHANGED exit_status
    /\ UNCHANGED <<log_files, GLM_ENABLED, pricing_file, pricing_config, daily_report,
                   parse_result, price_result, cost_result,
                   cost_sums, available_dates, CLI_PROXY_ENABLED, endpoint, run_args>>

\* daily_report = self.generate_daily_report(usage_data) (line 394)
RunGenerateDailyReport ==
    /\ pc = "generate"
    /\ run_steps' = Append(run_steps, "generate_daily_report")
    /\ daily_report' = generate_daily_report(usage_data, log_files)
    /\ pc' = "summary"
    /\ UNCHANGED <<usage_data, log_files, GLM_ENABLED, pricing_file, pricing_config,
                   parse_result, price_result, cost_result, exit_status,
                   cost_sums, available_dates, CLI_PROXY_ENABLED, endpoint, run_args>>

\* self.display_daily_summary_table(daily_report) (lines 397 and 291-347)
DisplayDailySummaryTable ==
    /\ pc = "summary"
    /\ run_steps' = Append(run_steps, IF daily_report = <<>> THEN "no_usage_data_message"
                                      ELSE "summary_table")
    /\ pc' = IF run_args.show_details /\ ~run_args.show_total_only THEN "details" ELSE "done"
    /\ UNCHANGED <<usage_data, log_files, GLM_ENABLED, pricing_file, pricing_config,
                   daily_report, parse_result, price_result, cost_result, exit_status,
                   cost_sums, available_dates, CLI_PROXY_ENABLED, endpoint, run_args>>

\* self.display_daily_model_details(daily_report) (lines 400-402 and 349-381)
DisplayDailyModelDetails ==
    /\ pc = "details"
    /\ run_steps' = Append(run_steps, "detail_tables")
    /\ pc' = "done"
    /\ UNCHANGED <<usage_data, log_files, GLM_ENABLED, pricing_file, pricing_config,
                   daily_report, parse_result, price_result, cost_result, exit_status,
                   cost_sums, available_dates, CLI_PROXY_ENABLED, endpoint, run_args>>

\* the user interrupts run (lines 404-406)
KeyboardInterrupt ==
    /\ pc \in {"fetch", "generate", "summary", "details"}
    /\ exit_status' = 1
    /\ pc' = "exited"
    /\ UNCHANGED <<usage_data, log_files, GLM_ENABLED, pricing_file, pricing_config,
                   daily_report, parse_result, price_result, cost_result,
                   cost_sums, available_dates, run_vars>>

NextRun ==
    \/ \E show_details \in BOOLEAN, show_total_only \in BOOLEAN :
          Run(show_details, show_total_only)
    \/ FetchUsageData
    \/ RunGenerateDailyReport
    \/ DisplayDailySummaryTable
    \/ DisplayDailyModelDetails
    \/ KeyboardInterrupt

SpecRun == InitRun /\ [][NextRun]_vars

\* the remote source is enabled and its endpoint is unreachable or answers
\* with an error status
FetchFails == CLI_PROXY_ENABLED /\ endpoint.status # "ok"

\* C13 (fatal remote failure): when the remote source is enabled and the fetch
\* fails, the run has exited with status 1 as soon as the fetch has been tried,
\* and at no time is generate_daily_report invoked or a summary or detail
\* table displayed, whatever the log directory holds.
C13_FatalRemoteFailure ==
    FetchFails =>
        /\ run_steps \in {<<>>, <<"fetch_usage_data">>}
        /\ daily_report = <<>>
        /\ run_steps # <<>> => (pc = "exited" /\ exit_status = 1)
        /\ pc \in {"idle", "fetch", "exited"}

\* C13 witness: the run has exited on a failed fetch while the log source is
\* enabled and the log file of a date holds a valid record.
C13_Witness ==
    /\ FetchFails
    /\ pc = "exited"
    /\ run_steps = <<"fetch_usage_data">>
    /\ GLM_ENABLED
    /\ parse_log_file(log_files, D1).total_requests > 0

----------------------------------------------------------------------------
(* The directory listing on its own: files token_usage_<token>.log are      *)
(* created, then get_available_dates is called                              *)

DirTokens ==
    {D1, D2,
     D1 \o <<"x">>,
     D2 \o <<"_", "b">>,
     <<"x">> \o D1,
     <<"2", "0", "2", "4", "_", "0", "1", "_", "0", "1">>,
     <<"2", "0", "2", "4", "-", "1", "-", "1">>,
     <<"b">>}

InitDir ==
    /\ usage_data = [usage |-> [apis |-> EmptyDict]]
    /\ log_files = EmptyDict
    /\ GLM_ENABLED = TRUE
    /\ pricing_file = JsonFile(StandardPricing)
    /\ pricing_config = StandardPricing
    /\ daily_report = <<>>
    /\ parse_result = None
    /\ price_result = None
    /\ cost_result = None
    /\ exit_status = -1
    /\ pc = "idle"
    /\ cost_sums = None
    /\ available_dates = None
    /\ NoRun

\* glm_dates = self.glm_parser.get_available_dates()
GetAvailableDates ==
    /\ pc = "idle"
    /\ available_dates' = get_available_dates(log_files)
    /\ pc' = "listed"
    /\ UNCHANGED <<usage_data, log_files, GLM_ENABLED, pricing_file, pricing_config,
                   daily_report, parse_result, price_result, cost_result, exit_status,
                   cost_sums, run_vars>>

NextDir ==
    \/ \E date_token \in DirTokens : CreateLogFile(date_token)
    \/ GetAvailableDates

SpecDir == InitDir /\ [][NextDir]_vars

\* a token of the form YYYY-MM-DD: four digits, a hyphen, two digits, a
\* hyphen, two digits, and nothing else
IsDateToken(token) ==
    /\ Len(token) = 10
    /\ \A i \in {1, 2, 3, 4, 6, 7, 9, 10} : IsDigit(token[i])
    /\ token[5] = "-"
    /\ token[8] = "-"

\* C14 (directory listing validation): get_available_dates returns exactly
\* the tokens of the files token_usage_<token>.log whose token has the form
\* YYYY-MM-DD and nothing else, each once, in ascending order.
C14_ListedDates ==
    pc = "listed" =>
        /\ Range(available_dates) = {token \in DOMAIN log_files : IsDateToken(token)}
        /\ \A i, j \in 1..Len(available_dates) :
              i < j => StrLess(available_dates[i], available_dates[j])

----------------------------------------------------------------------------
(* The statistics parse_log_file returns against its detail records         *)

\* C15: whenever parse_log_file returns, whatever the file holds,
\* total_requests is the number of entries of details and the three token
\* totals are the sums of the entries' input, output and total tokens.
C15_StatsMatchDetails ==
    pc = "parsed" =>
        /\ parse_result.total_requests = Len(parse_result.details)
        /\ parse_result.total_input_tokens = TokenSum(parse_result.details, "input_tokens")
        /\ parse_result.total_output_tokens = TokenSum(parse_result.details, "output_tokens")
        /\ parse_result.total_tokens = TokenSum(parse_result.details, "total_tokens")

=============================================================================
